---- MODULE Spec2Model ----
(***************************************************************************)
(* The earthquake-damage notebook (src/unnamed/part_000, cells at lines    *)
(* 33-73, 109-111, 127, 145-147, 174-179, 226-231) as a state machine: one *)
(* action per statement of the data-preparation cells, executed in cell    *)
(* order.  An exception aborts the run (pc = "error") and leaves every     *)
(* notebook variable as the failing statement found it.                    *)
(*                                                                         *)
(* Cells of a DataFrame are records [t, s, n]: a string cell is            *)
(* [t |-> "str", s |-> the string, n |-> 0], a number cell is              *)
(* [t |-> "int", s |-> "", n |-> the number].  A DataFrame is              *)
(* [columns, index, data]: the header, the row labels and the rows (each a *)
(* function from column name to cell).  Integer codes are 0-based as in    *)
(* Python; TLA+ sequences are 1-based, so position i of a Python list is   *)
(* element i + 1 of the sequence that models it.                           *)
(***************************************************************************)
EXTENDS Integers, Sequences, FiniteSets, TLC

VARIABLES
    file_values,    \* content of data/train_values.csv: [columns, rows]
    file_labels,    \* content of data/train_labels.csv: [columns, rows]
    N,              \* the row limit handed to read_csv
    test_size,      \* the fraction handed to train_test_split, [num, den]
    pc,             \* the statement the notebook executes next
    key_i,          \* position of the remapping loop in value_map.items()
    err,            \* the exception that aborted the run, [kind, at]
    values,         \* DataFrame of features
    labels,         \* DataFrame of labels
    train_values, test_values, train_labels, test_labels,
    forest,         \* the classifier: "unfitted" or "fitted"
    features,       \* the feature names read from values.columns
    np_random,      \* state of numpy's global generator
    splits          \* the index arrays of every execution of the split cell

vars == <<file_values, file_labels, N, test_size, pc, key_i, err, values, labels,
          train_values, test_values, train_labels, test_labels, forest, features,
          np_random, splits>>

----------------------------------------------------------------------------
(* Bounds of the model *)

\* Largest number of data rows in a source file.
MaxRows == 4
\* Largest number of executions of the split cell in one session.
MaxRuns == 2

----------------------------------------------------------------------------
(* Generic helpers *)

Range(s) == {s[i] : i \in DOMAIN s}

Min(a, b) == IF a <= b THEN a ELSE b

StrCell(s) == [t |-> "str", s |-> s, n |-> 0]
NumCell(n) == [t |-> "int", s |-> "", n |-> n]

\* A notebook name that has not been assigned yet.
NotDefined == [undefined |-> TRUE]

NoError == [kind |-> "none", at |-> "none"]

----------------------------------------------------------------------------
(* Configuration: value_map, in insertion order *)

value_map_keys ==
    << "land_surface_condition", "foundation_type", "roof_type",
       "ground_floor_type", "other_floor_type", "position",
       "plan_configuration", "legal_ownership_status" >>

value_map ==
    [ land_surface_condition |-> <<"n", "o", "t">>,
      foundation_type        |-> <<"h", "i", "r", "u", "w">>,
      roof_type              |-> <<"n", "q", "x">>,
      ground_floor_type      |-> <<"f", "m", "v", "x", "z">>,
      other_floor_type       |-> <<"j", "q", "s", "x">>,
      position               |-> <<"j", "o", "s", "t">>,
      plan_configuration     |-> <<"a", "c", "d", "f", "m", "n", "o", "q", "s", "u">>,
      legal_ownership_status |-> <<"a", "r", "v", "w">> ]

----------------------------------------------------------------------------
(* The source files the notebook reads.  Row p of a feature file is built  *)
(* from a template number t: every categorical column holds the vocabulary *)
(* entry at position t modulo the vocabulary's length, so templates        *)
(* 0 .. UnknownTemplate - 1 cover every position of every vocabulary;      *)
(* template UnknownTemplate holds "zz", which is in no vocabulary, in      *)
(* roof_type.                                                              *)

FeatureHeaders ==
    { <<"building_id", "age">> \o value_map_keys,
      <<"building_id", "age">> \o SelectSeq(value_map_keys, LAMBDA c : c # "position"),
      <<"age">> \o value_map_keys }

LabelHeaders == { <<"building_id", "damage_grade">>, <<"damage_grade">> }

UnknownTemplate ==
    CHOOSE m \in 1..20 :
        /\ \A c \in Range(value_map_keys) : Len(value_map[c]) <= m
        /\ \E c \in Range(value_map_keys) : Len(value_map[c]) = m

FeatureCell(c, p, t) ==
    IF c = "building_id" THEN NumCell(p)
    ELSE IF c = "age" THEN NumCell(5 * t)
    ELSE IF t = UnknownTemplate /\ c = "roof_type" THEN StrCell("zz")
    ELSE StrCell(value_map[c][(t % Len(value_map[c])) + 1])

FeatureFile(header, t0, m) ==
    [ columns |-> header,
      rows    |-> [p \in 1..m |->
                     [c \in Range(header) |->
                         FeatureCell(c, p, (t0 + p - 1) % (UnknownTemplate + 1))]] ]

LabelCell(c, p) ==
    IF c = "building_id" THEN NumCell(p) ELSE NumCell(((p - 1) % 3) + 1)

LabelFile(header, m) ==
    [ columns |-> header,
      rows    |-> [p \in 1..m |-> [c \in Range(header) |-> LabelCell(c, p)]] ]

FeatureFiles ==
    { FeatureFile(h, t0, m) : h \in FeatureHeaders, t0 \in 0..UnknownTemplate, m \in 0..MaxRows }

LabelFiles == { LabelFile(h, m) : h \in LabelHeaders, m \in 0..MaxRows }

\* Row limits: one that truncates the files of the model, and the notebook's int(5e4).
NValues == {2, 50000}

\* Fractions test_size ranges over: the notebook's 0.2, and other floats whose
\* product with a row count of the model is exact in binary floating point.
TestSizes ==
    { [num |-> 1, den |-> 5], [num |-> 1, den |-> 4], [num |-> 1, den |-> 2],
      [num |-> 3, den |-> 4], [num |-> 0, den |-> 1], [num |-> 1, den |-> 1],
      [num |-> 3, den |-> 2], [num |-> -1, den |-> 4] }

----------------------------------------------------------------------------
(* pandas *)

\* Mutant of read_csv: the header line is counted among the nrows lines.
read_csv_header_counted(file, nrows) ==
    LET k == Min(nrows - 1, Len(file.rows))
    IN  [ columns |-> file.columns,
          index   |-> [p \in 1..k |-> p - 1],
          data    |-> SubSeq(file.rows, 1, k) ]

\* pd.read_csv(file, header=0, delimiter=",", nrows=n): the first min(n, rows)
\* data rows under a RangeIndex.
read_csv(file, nrows) ==
    LET k == Min(nrows, Len(file.rows))
    IN  [ columns |-> file.columns,
          index   |-> [p \in 1..k |-> p - 1],
          data    |-> SubSeq(file.rows, 1, k) ]

\* Mutant of drop: the result of a drop without inplace=True is thrown away.
drop_not_inplace(df, label) == df

\* df.drop(label, axis=1, inplace=True) on a frame that has the column.
drop(df, label) ==
    [ columns |-> SelectSeq(df.columns, LAMBDA c : c # label),
      index   |-> df.index,
      data    |-> [p \in DOMAIN df.data |->
                     [c \in (DOMAIN df.data[p]) \ {label} |-> df.data[p][c]]] ]

\* Mutant of val_dict: the codes start at 1, np.arange(1, len(val) + 1).
val_dict_from_one(val) ==
    [s \in Range(val) |->
        CHOOSE i \in DOMAIN val :
            val[i] = s /\ \A j \in DOMAIN val : val[j] = s => j <= i]

\* replacements = np.arange(len(val)); val_dict = dict(zip(val, replacements)):
\* a later duplicate of a key overwrites an earlier one.
val_dict(val) ==
    [s \in Range(val) |->
        (CHOOSE i \in DOMAIN val :
            val[i] = s /\ \A j \in DOMAIN val : val[j] = s => j <= i) - 1]

\* Mutant of replace_cell: Series.map(d), where a cell that is no key of d
\* becomes a missing value (here -1).
replace_cell_map(cell, d) ==
    IF cell.t = "str" /\ cell.s \in DOMAIN d THEN NumCell(d[cell.s]) ELSE NumCell(-1)

\* One cell under Series.replace(to_replace=d): a cell equal to a key of d
\* becomes d's value for it, any other cell is left as it is.
replace_cell(cell, d) ==
    IF cell.t = "str" /\ cell.s \in DOMAIN d THEN NumCell(d[cell.s]) ELSE cell

\* Mutant of replace: the replaced column is assigned to the frame's name,
\* values = values[[key]].replace(to_replace=d).
replace_assign_column(df, key, d) ==
    [ columns |-> <<key>>,
      index   |-> df.index,
      data    |-> [p \in DOMAIN df.data |->
                     [c \in {key} |-> replace_cell(df.data[p][key], d)]] ]

\* values[key].replace(to_replace=d, inplace=True) on a frame that has the column.
replace(df, key, d) ==
    [ df EXCEPT !.data =
        [p \in DOMAIN df.data |->
            [df.data[p] EXCEPT ![key] = replace_cell(df.data[p][key], d)]] ]

\* The whole remapping loop from the k-th key of value_map on, applied to a
\* frame that has every column of value_map.
RECURSIVE remap_loop(_, _)
remap_loop(df, k) ==
    IF k > Len(value_map_keys) THEN df
    ELSE remap_loop(replace(df, value_map_keys[k], val_dict(value_map[value_map_keys[k]])), k + 1)

\* a.iloc[idx]: the rows at the 0-based positions idx, row labels kept.
safe_indexing(df, idx) ==
    [ columns |-> df.columns,
      index   |-> [k \in DOMAIN idx |-> df.index[idx[k] + 1]],
      data    |-> [k \in DOMAIN idx |-> df.data[idx[k] + 1]] ]

\* Mutant of ravel: the flat array in reversed order.
ravel_reversed(df) ==
    LET n == Len(df.data)
    IN  [ndarray |-> [k \in 1..n |-> df.data[n + 1 - k][df.columns[1]]]]

\* np.ravel(df): the cells in row-major order, row labels and header gone.
RECURSIVE FlattenRows(_, _)
FlattenRows(df, p) ==
    IF p > Len(df.data) THEN << >>
    ELSE [j \in DOMAIN df.columns |-> df.data[p][df.columns[j]]] \o FlattenRows(df, p + 1)

ravel(df) == [ndarray |-> FlattenRows(df, 1)]

----------------------------------------------------------------------------
(* numpy and scikit-learn: train_test_split(values, labels, test_size,     *)
(* random_state=0)                                                         *)

\* The seed the notebook passes.
random_state == [none |-> FALSE, seed |-> 0]

\* One draw of the generator.  numpy's MT19937 is abstracted by a small linear
\* congruential generator: what the model keeps is that a draw is a function of
\* the generator's state and advances it.
rng_next(state) == (75 * state + 74) % 65537

\* RandomState(seed): a fresh generator whose state is a function of the seed.
RandomState(seed) == rng_next(seed + 1)

\* Mutant of check_random_state: the seed is ignored, as with random_state=None.
check_random_state_global(seed) == [global |-> TRUE, state |-> np_random]

\* check_random_state(seed): numpy's global generator when seed is None, a
\* fresh generator seeded by seed when it is an integer.
check_random_state(seed) ==
    IF seed.none THEN [global |-> TRUE, state |-> np_random]
    ELSE [global |-> FALSE, state |-> RandomState(seed.seed)]

\* The shuffle of rng.permutation: for i in reversed(range(1, n)):
\* j = draw in [0, i]; x[i], x[j] = x[j], x[i].  The draw leaves out the low
\* bits of the generator's state.  Gives [perm, state].
RECURSIVE shuffle(_, _, _)
shuffle(x, i, state) ==
    IF i < 1 THEN [perm |-> x, state |-> state]
    ELSE LET s1 == rng_next(state)
             j  == (s1 \div 32) % (i + 1)
         IN  shuffle([x EXCEPT ![i + 1] = x[j + 1], ![j + 1] = x[i + 1]], i - 1, s1)

\* rng.permutation(n): np.arange(n), shuffled.
permutation(n, state) == shuffle([k \in 1..n |-> k - 1], n - 1, state)

\* ceil(num * n / den) for num >= 0 and den > 0.
ceil(a, b) == (a + b - 1) \div b

\* Mutant of validate_shuffle_split: n_test = round(test_size * n_samples).
validate_shuffle_split_round(n_samples, ts) ==
    IF ts.num <= 0 \/ ts.num >= ts.den
    THEN [error |-> "ValueError: test_size", n_train |-> 0, n_test |-> 0]
    ELSE LET q       == (ts.num * n_samples) \div ts.den
             r       == (ts.num * n_samples) % ts.den
             n_test  == IF 2 * r < ts.den THEN q
                        ELSE IF 2 * r > ts.den THEN q + 1
                        ELSE IF q % 2 = 0 THEN q ELSE q + 1
             n_train == n_samples - n_test
         IN  IF n_train = 0
             THEN [error |-> "ValueError: empty train set", n_train |-> 0, n_test |-> 0]
             ELSE [error |-> "none", n_train |-> n_train, n_test |-> n_test]

\* Mutant of validate_shuffle_split: the range check lets 0 and 1 through.
validate_shuffle_split_closed(n_samples, ts) ==
    IF ts.num < 0 \/ ts.num > ts.den
    THEN [error |-> "ValueError: test_size", n_train |-> 0, n_test |-> 0]
    ELSE LET n_test  == ceil(ts.num * n_samples, ts.den)
             n_train == n_samples - n_test
         IN  IF n_train = 0
             THEN [error |-> "ValueError: empty train set", n_train |-> 0, n_test |-> 0]
             ELSE [error |-> "none", n_train |-> n_train, n_test |-> n_test]

\* Mutant of validate_shuffle_split: an empty train set is let through.
validate_shuffle_split_no_empty_check(n_samples, ts) ==
    IF ts.num <= 0 \/ ts.num >= ts.den
    THEN [error |-> "ValueError: test_size", n_train |-> 0, n_test |-> 0]
    ELSE LET n_test == ceil(ts.num * n_samples, ts.den)
         IN  [error |-> "none", n_train |-> n_samples - n_test, n_test |-> n_test]

\* _validate_shuffle_split(n_samples, test_size, train_size=None) for a float
\* test_size: ValueError unless 0 < test_size < 1; n_test = ceil(test_size *
\* n_samples), n_train = n_samples - n_test; ValueError when n_train is 0.
validate_shuffle_split(n_samples, ts) ==
    IF ts.num <= 0 \/ ts.num >= ts.den
    THEN [error |-> "ValueError: test_size", n_train |-> 0, n_test |-> 0]
    ELSE LET n_test  == ceil(ts.num * n_samples, ts.den)
             n_train == n_samples - n_test
         IN  IF n_train = 0
             THEN [error |-> "ValueError: empty train set", n_train |-> 0, n_test |-> 0]
             ELSE [error |-> "none", n_train |-> n_train, n_test |-> n_test]

\* ShuffleSplit._iter_indices: ind_test = permutation[:n_test]
ind_test(perm, n_test) == SubSeq(perm, 1, n_test)

\* Mutant of ind_train: the slice starts one position early.
ind_train_early(perm, n_test, n_train) == SubSeq(perm, n_test, n_test + n_train)

\* ShuffleSplit._iter_indices: ind_train = permutation[n_test:(n_test + n_train)]
ind_train(perm, n_test, n_train) == SubSeq(perm, n_test + 1, n_test + n_train)

\* train_test_split up to the index arrays: indexable() rejects arrays of
\* different lengths, then the sizes are validated, then one shuffle is drawn.
\* Gives [error, train, test, rng].
split_indices(X, y, ts, seed) ==
    LET n_samples == Len(X.data)
        sizes     == validate_shuffle_split(n_samples, ts)
        rng       == check_random_state(seed)
        drawn     == permutation(n_samples, rng.state)
        none      == [train |-> << >>, test |-> << >>, rng |-> rng]
    IN  IF Len(X.data) # Len(y.data)
        THEN [error |-> "ValueError: inconsistent numbers of samples"] @@ none
        ELSE IF sizes.error # "none"
        THEN [error |-> sizes.error] @@ none
        ELSE [ error |-> "none",
               train |-> ind_train(drawn.perm, sizes.n_test, sizes.n_train),
               test  |-> ind_test(drawn.perm, sizes.n_test),
               rng   |-> [rng EXCEPT !.state = drawn.state] ]

\* forest.fit(X, y) converts X to floats: a cell that is still a string makes
\* it raise ValueError.
all_numeric(df) ==
    \A p \in DOMAIN df.data : \A c \in DOMAIN df.data[p] : df.data[p][c].t = "int"

----------------------------------------------------------------------------
(* The notebook *)

inputs == <<file_values, file_labels, N, test_size>>
frames == <<values, labels>>
subsets == <<train_values, test_values, train_labels, test_labels>>

Init ==
    /\ file_values \in FeatureFiles
    /\ file_labels \in LabelFiles
    /\ N \in NValues
    /\ test_size \in TestSizes
    /\ pc = "read_values"
    /\ key_i = 1
    /\ err = NoError
    /\ values = NotDefined
    /\ labels = NotDefined
    /\ train_values = NotDefined
    /\ test_values = NotDefined
    /\ train_labels = NotDefined
    /\ test_labels = NotDefined
    /\ forest = "unfitted"
    /\ features = NotDefined
    /\ np_random = 1
    /\ splits = << >>

\* An exception of the given kind leaves the statement at pc.
Raise(kind) ==
    /\ pc' = "error"
    /\ err' = [kind |-> kind, at |-> pc]

\* values = pd.read_csv(file_values, header=0, delimiter=",", nrows=N)
ReadValues ==
    /\ pc = "read_values"
    /\ values' = read_csv(file_values, N)
    /\ pc' = "read_labels"
    /\ UNCHANGED <<inputs, key_i, err, labels, subsets, forest, features, np_random, splits>>

\* labels = pd.read_csv(file_labels, header=0, delimiter=",", nrows=N)
ReadLabels ==
    /\ pc = "read_labels"
    /\ labels' = read_csv(file_labels, N)
    /\ pc' = "drop_values"
    /\ UNCHANGED <<inputs, key_i, err, values, subsets, forest, features, np_random, splits>>

\* values.drop("building_id", axis=1, inplace=True): KeyError without the column.
DropValues ==
    /\ pc = "drop_values"
    /\ IF "building_id" \in Range(values.columns)
       THEN /\ values' = drop(values, "building_id")
            /\ pc' = "drop_labels"
            /\ UNCHANGED err
       ELSE /\ Raise("KeyError")
            /\ UNCHANGED values
    /\ UNCHANGED <<inputs, key_i, labels, subsets, forest, features, np_random, splits>>

\* labels.drop("building_id", axis=1, inplace=True): KeyError without the column.
DropLabels ==
    /\ pc = "drop_labels"
    /\ IF "building_id" \in Range(labels.columns)
       THEN /\ labels' = drop(labels, "building_id")
            /\ pc' = "remap"
            /\ UNCHANGED err
       ELSE /\ Raise("KeyError")
            /\ UNCHANGED labels
    /\ UNCHANGED <<inputs, key_i, values, subsets, forest, features, np_random, splits>>

\* Mutant of Remap: a column values does not have is skipped.
Remap_skip_missing ==
    /\ pc = "remap"
    /\ LET key == value_map_keys[key_i]
       IN  values' = IF key \in Range(values.columns)
                     THEN replace(values, key, val_dict(value_map[key]))
                     ELSE values
    /\ IF key_i < Len(value_map_keys)
       THEN key_i' = key_i + 1 /\ pc' = "remap"
       ELSE key_i' = key_i /\ pc' = "split"
    /\ UNCHANGED <<inputs, err, labels, subsets, forest, features, np_random, splits>>

\* One iteration of: for key, val in value_map.items(): ...
\* values[key] raises KeyError when values has no such column.
Remap ==
    /\ pc = "remap"
    /\ LET key == value_map_keys[key_i]
           val == value_map[key]
       IN  IF key \in Range(values.columns)
           THEN /\ values' = replace(values, key, val_dict(val))
                /\ IF key_i < Len(value_map_keys)
                   THEN key_i' = key_i + 1 /\ pc' = "remap"
                   ELSE key_i' = key_i /\ pc' = "split"
                /\ UNCHANGED err
           ELSE /\ Raise("KeyError")
                /\ UNCHANGED <<values, key_i>>
    /\ UNCHANGED <<inputs, labels, subsets, forest, features, np_random, splits>>

\* train_values, test_values, train_labels, test_labels =
\*     train_test_split(values, labels, test_size=test_size, random_state=0)
\* Every array is indexed by the same train and test index arrays.  A generator
\* that is numpy's global one keeps the state the shuffle left it in.
TrainTestSplit ==
    /\ pc = "split"
    /\ LET r == split_indices(values, labels, test_size, random_state)
       IN  IF r.error = "none"
           THEN /\ train_values' = safe_indexing(values, r.train)
                /\ test_values' = safe_indexing(values, r.test)
                /\ train_labels' = safe_indexing(labels, r.train)
                /\ test_labels' = safe_indexing(labels, r.test)
                /\ splits' = Append(splits,
                       [ train |-> r.train, test |-> r.test,
                         train_values |-> safe_indexing(values, r.train),
                         test_values  |-> safe_indexing(values, r.test),
                         train_labels |-> safe_indexing(labels, r.train),
                         test_labels  |-> safe_indexing(labels, r.test) ])
                /\ np_random' = IF r.rng.global THEN r.rng.state ELSE np_random
                /\ pc' = "ravel"
                /\ UNCHANGED err
           ELSE /\ Raise(r.error)
                /\ UNCHANGED <<subsets, splits, np_random>>
    /\ UNCHANGED <<inputs, key_i, frames, forest, features>>

\* Mutant of Ravel: the whole label frame is flattened, np.ravel(labels).
Ravel_full_labels ==
    /\ pc = "ravel"
    /\ train_labels' = ravel(labels)
    /\ pc' = "fit"
    /\ UNCHANGED <<inputs, key_i, err, frames, train_values, test_values, test_labels,
                   forest, features, np_random, splits>>

\* train_labels = np.ravel(train_labels)
Ravel ==
    /\ pc = "ravel"
    /\ train_labels' = ravel(train_labels)
    /\ pc' = "fit"
    /\ UNCHANGED <<inputs, key_i, err, frames, train_values, test_values, test_labels,
                   forest, features, np_random, splits>>

\* forest = RandomForestClassifier(...); forest.fit(train_values, train_labels)
Fit ==
    /\ pc = "fit"
    /\ IF all_numeric(train_values)
       THEN /\ forest' = "fitted"
            /\ pc' = "score"
            /\ UNCHANGED err
       ELSE /\ Raise("ValueError: could not convert string to float")
            /\ UNCHANGED forest
    /\ UNCHANGED <<inputs, key_i, frames, subsets, features, np_random, splits>>

\* forest.predict and f1_score on both subsets: they read their arguments;
\* predict converts its argument to floats as fit does.
Score ==
    /\ pc = "score"
    /\ IF all_numeric(train_values) /\ all_numeric(test_values)
       THEN pc' = "features" /\ UNCHANGED err
       ELSE Raise("ValueError: could not convert string to float")
    /\ UNCHANGED <<inputs, key_i, frames, subsets, forest, features, np_random, splits>>

\* features = np.array(values.columns.tolist())
Features ==
    /\ pc = "features"
    /\ features' = values.columns
    /\ pc' = "done"
    /\ UNCHANGED <<inputs, key_i, err, frames, subsets, forest, np_random, splits>>

\* The split cell is executed again: a notebook cell can be re-run once the
\* cells before it have run.
RerunSplitCell ==
    /\ pc \in {"fit", "score", "features", "done"}
    /\ Len(splits) < MaxRuns
    /\ pc' = "split"
    /\ UNCHANGED <<inputs, key_i, err, frames, subsets, forest, features, np_random, splits>>

Next ==
    \/ ReadValues
    \/ ReadLabels
    \/ DropValues
    \/ DropLabels
    \/ Remap
    \/ TrainTestSplit
    \/ Ravel
    \/ Fit
    \/ Score
    \/ Features
    \/ RerunSplitCell

Spec == Init /\ [][Next]_vars

----------------------------------------------------------------------------
(* Vocabulary of the properties *)

LoadStatements == {"read_values", "read_labels", "drop_values", "drop_labels", "remap"}

\* The statement the run is at, or was at when it was aborted.
At == IF pc = "error" THEN err.at ELSE pc

\* The number of columns of value_map the remapping loop has gone through.
RemappedUpTo ==
    IF At \in {"read_values", "read_labels", "drop_values", "drop_labels"} THEN 0
    ELSE IF At = "remap" THEN key_i - 1
    ELSE Len(value_map_keys)

\* The load cell has run to its end.
Loaded == At \notin LoadStatements

\* The split cell has been executed at least once.
SplitAttempted == Len(splits) > 0 \/ (pc = "error" /\ err.at = "split")

\* The split cell has produced its four subsets.
SplitProduced == train_values # NotDefined

\* values and labels form a Dataset: as many feature rows as labels.
Aligned == Len(values.data) = Len(labels.data)

FractionValid == 0 < test_size.num /\ test_size.num < test_size.den

\* The label of position k of a split label subset, a frame or a flat array.
LabelAt(subset, k) ==
    IF "ndarray" \in DOMAIN subset THEN subset.ndarray[k]
    ELSE subset.data[k]["damage_grade"]

\* k is round(a / b), whichever way a tie is rounded: no integer is nearer
\* to a / b than k; b > 0.
IsRounded(k, a, b) ==
    LET d == k * b - a
    IN  IF d >= 0 THEN 2 * d <= b ELSE 2 * (0 - d) <= b

----------------------------------------------------------------------------
(* C1: once the remapping loop has gone through a column of value_map,     *)
(* every loaded row whose source string is the vocabulary entry at         *)
(* position i holds the integer i in that column, and the vocabulary entry *)
(* at that integer is the source string.                                   *)
C1_EncodeRoundTrip ==
    \A k \in 1..RemappedUpTo :
        LET key == value_map_keys[k]
            val == value_map[key]
        IN  \A p \in DOMAIN values.data : \A i \in 0..(Len(val) - 1) :
                file_values.rows[p][key] = StrCell(val[i + 1])
                    => /\ values.data[p][key] = NumCell(i)
                       /\ val[values.data[p][key].n + 1] = file_values.rows[p][key].s

C1_Witness ==
    /\ pc = "split"
    /\ \E p \in DOMAIN values.data :
          /\ file_values.rows[p]["plan_configuration"] = StrCell("u")
          /\ values.data[p]["plan_configuration"] = NumCell(9)
          /\ file_values.rows[p]["land_surface_condition"] = StrCell("n")
          /\ values.data[p]["land_surface_condition"] = NumCell(0)

(* C2 as stated: for every non-empty Dataset and every fraction strictly   *)
(* between 0 and 1, an executed split has produced train and test row      *)
(* labels that are disjoint and together are the whole range 0..|D|-1.     *)
PartitionOf(train, test, n) ==
    /\ Range(train) \cap Range(test) = {}
    /\ Range(train) \cup Range(test) = 0..(n - 1)
    /\ Len(train) + Len(test) = n

C2_Original ==
    (SplitAttempted /\ Aligned /\ Len(values.data) > 0 /\ FractionValid)
        => /\ SplitProduced
           /\ PartitionOf(train_values.index, test_values.index, Len(values.data))

(* C2 amended: the same, for the Datasets with ceil(f * |D|) < |D|, the    *)
(* ones train_test_split accepts; the label subsets are cut the same way.  *)
C2_Partition ==
    (SplitAttempted /\ Aligned /\ FractionValid
        /\ ceil(test_size.num * Len(values.data), test_size.den) < Len(values.data))
        => /\ SplitProduced
           /\ PartitionOf(train_values.index, test_values.index, Len(values.data))
           /\ test_labels.index = test_values.index
           /\ \A r \in DOMAIN splits :
                 PartitionOf(splits[r].train, splits[r].test, Len(values.data))

C2_Witness ==
    /\ SplitProduced
    /\ Len(values.data) = 3
    /\ train_values.index = <<2, 0>>
    /\ test_values.index = <<1>>

(* C3 as stated: a produced split has round(f * |D|) test rows and         *)
(* |D| - |test| train rows.                                                *)
C3_Original ==
    SplitProduced
        => /\ IsRounded(Len(test_values.data), test_size.num * Len(values.data), test_size.den)
           /\ Len(train_values.data) = Len(values.data) - Len(test_values.data)

(* C3 amended: a produced split has ceil(f * |D|) test rows and            *)
(* |D| - |test| train rows, in the features and in the labels.             *)
C3_Sizes ==
    SplitProduced
        => /\ Len(test_values.data) = ceil(test_size.num * Len(values.data), test_size.den)
           /\ Len(train_values.data) = Len(values.data) - Len(test_values.data)
           /\ Len(test_labels.data) = Len(test_values.data)
           /\ IF "ndarray" \in DOMAIN train_labels
              THEN Len(train_labels.ndarray) = Len(train_values.data)
              ELSE Len(train_labels.data) = Len(train_values.data)

C3_Witness ==
    /\ SplitProduced
    /\ test_size = [num |-> 1, den |-> 5]
    /\ Len(values.data) = 2
    /\ Len(test_values.data) = 1
    /\ Len(train_values.data) = 1

(* C4: every execution of the split cell on the same Dataset, with the     *)
(* same fraction and the same seed, gives the same train and test index    *)
(* arrays, in the same order, and the same four subsets.                   *)
C4_Deterministic ==
    \A a, b \in DOMAIN splits : splits[a] = splits[b]

C4_Witness ==
    /\ Len(splits) = 2
    /\ Len(splits[1].train) >= 2
    /\ splits[2].train = train_values.index

(* C5: at every position k of the train subset and of the test subset the  *)
(* feature row is the row of values with the row label at k, and the label *)
(* at k is the label of that same row of labels, also once train_labels    *)
(* has been flattened.                                                     *)
C5_Pairing ==
    SplitProduced
        => /\ \A k \in DOMAIN train_values.data :
                 LET o == train_values.index[k]
                 IN  /\ train_values.data[k] = values.data[o + 1]
                     /\ LabelAt(train_labels, k) = labels.data[o + 1]["damage_grade"]
           /\ \A k \in DOMAIN test_values.data :
                 LET o == test_values.index[k]
                 IN  /\ test_values.data[k] = values.data[o + 1]
                     /\ LabelAt(test_labels, k) = labels.data[o + 1]["damage_grade"]

C5_Witness ==
    /\ pc = "fit"
    /\ "ndarray" \in DOMAIN train_labels
    /\ Len(train_labels.ndarray) = 2
    /\ train_labels.ndarray[1] # train_labels.ndarray[2]
    /\ train_values.index[1] > train_values.index[2]

(* C6: in every state after values.drop has run, building_id is no column  *)
(* of values, of train_values or test_values, nor a name in features.      *)
HasColumn(df, c) ==
    \/ c \in Range(df.columns)
    \/ \E p \in DOMAIN df.data : c \in DOMAIN df.data[p]

C6_NoIdentifier ==
    /\ At \notin {"read_values", "read_labels", "drop_values"}
          => ~HasColumn(values, "building_id")
    /\ SplitProduced
          => ~HasColumn(train_values, "building_id") /\ ~HasColumn(test_values, "building_id")
    /\ features # NotDefined => "building_id" \notin Range(features)

C6_Witness ==
    /\ pc = "done"
    /\ "building_id" \in Range(file_values.columns)
    /\ Len(features) = Len(file_values.columns) - 1
    /\ Len(train_values.data) > 0

(* C7 as stated: when a column the remapping loop has gone through holds,  *)
(* in a loaded row, a string that is not in the column's vocabulary, the   *)
(* run has been aborted by the encoding step.                              *)
UnknownIn(k) ==
    LET key == value_map_keys[k]
    IN  \E p \in DOMAIN values.data :
            /\ file_values.rows[p][key].t = "str"
            /\ file_values.rows[p][key].s \notin Range(value_map[key])

C7_UnknownCategoryRaises ==
    \A k \in 1..RemappedUpTo :
        UnknownIn(k) => (pc = "error" /\ err.at = "remap")

(* C8 as stated: when the two source files hold different numbers of rows, *)
(* loading fails: the load cell never runs to its end, leaving values and  *)
(* labels behind for the cells after it.                                   *)
C8_MismatchRaises ==
    Len(file_values.rows) # Len(file_labels.rows) => ~Loaded

(* C9: when a column named in value_map is no column of the feature file,  *)
(* the load cell never runs to its end, the only exception that aborts it  *)
(* is the KeyError of a missing column, and the remapping loop never gets  *)
(* past the first missing column.                                          *)
MissingColumn(k) == value_map_keys[k] \notin Range(file_values.columns)

C9_MissingColumnRaises ==
    (\E k \in DOMAIN value_map_keys : MissingColumn(k))
        => /\ ~Loaded
           /\ pc = "error" => err.kind = "KeyError"
           /\ \A k \in 1..RemappedUpTo : ~MissingColumn(k)

C9_Witness ==
    /\ pc = "error"
    /\ err = [kind |-> "KeyError", at |-> "remap"]
    /\ MissingColumn(key_i)
    /\ key_i = 6

(* C10: when the fraction is not strictly between 0 and 1, no execution of *)
(* the split cell produces subsets, and on a Dataset (as many feature rows *)
(* as labels) the split is aborted by the ValueError about test_size.      *)
C10_InvalidFraction ==
    ~FractionValid
        => /\ ~SplitProduced
           /\ test_values = NotDefined /\ train_labels = NotDefined /\ test_labels = NotDefined
           /\ splits = << >>
           /\ At \in LoadStatements \cup {"split"}
           /\ (pc = "error" /\ err.at = "split" /\ Aligned)
                 => err.kind = "ValueError: test_size"

C10_Witness ==
    /\ test_size = [num |-> 3, den |-> 2]
    /\ pc = "error"
    /\ err = [kind |-> "ValueError: test_size", at |-> "split"]
    /\ Len(values.data) = 2
    /\ train_values = NotDefined

(* C11: when the Dataset has zero rows (and the fraction is strictly       *)
(* between 0 and 1), an executed split has been aborted by the ValueError  *)
(* about the empty train set, and no subset, empty or not, is assigned.    *)
C11_EmptyDataset ==
    (SplitAttempted /\ Aligned /\ Len(values.data) = 0 /\ FractionValid)
        => /\ pc = "error"
           /\ err = [kind |-> "ValueError: empty train set", at |-> "split"]
           /\ train_values = NotDefined /\ test_values = NotDefined
           /\ train_labels = NotDefined /\ test_labels = NotDefined
           /\ splits = << >>

C11_Witness ==
    /\ pc = "error"
    /\ err = [kind |-> "ValueError: empty train set", at |-> "split"]
    /\ Len(values.data) = 0
    /\ Len(labels.data) = 0
    /\ test_size = [num |-> 1, den |-> 5]
    /\ train_values = NotDefined

(* C12 as stated: after an exception the notebook holds no Dataset that is *)
(* partly transformed: no values in which one column of value_map has been *)
(* encoded while another still holds its vocabulary strings, and no pair   *)
(* of frames of which one has lost the identifier the file gave it and the *)
(* other still has it.                                                     *)
PartlyEncoded ==
    /\ values # NotDefined
    /\ \E p \in DOMAIN values.data :
          \E c1, c2 \in Range(value_map_keys) \cap DOMAIN values.data[p] :
              /\ file_values.rows[p][c1].t = "str"
              /\ values.data[p][c1].t = "int"
              /\ values.data[p][c2].t = "str"
              /\ values.data[p][c2].s \in Range(value_map[c2])

OneIdentifierDropped ==
    /\ values # NotDefined /\ labels # NotDefined
    /\ "building_id" \in Range(file_values.columns)
    /\ "building_id" \in Range(file_labels.columns)
    /\ HasColumn(values, "building_id") # HasColumn(labels, "building_id")

C12_NoPartialDataset ==
    pc = "error" => ~PartlyEncoded /\ ~OneIdentifierDropped

(* C13: once read, values and labels hold min(N, M) rows each, M the      *)
(* number of data rows of their file; row p of each is row p of its file   *)
(* (told by the identifier while it is there, by the untouched age and     *)
(* damage_grade columns throughout, and by the row labels 0, 1, ...), so   *)
(* no row of a file after its first N is in the Dataset or in a subset.    *)
FirstRowsOf(df, file, col) ==
    /\ Len(df.data) = Min(N, Len(file.rows))
    /\ Len(df.data) <= N
    /\ \A p \in DOMAIN df.data :
          /\ df.index[p] = p - 1
          /\ df.data[p][col] = file.rows[p][col]
          /\ "building_id" \in DOMAIN df.data[p] => df.data[p]["building_id"] = NumCell(p)

C13_BoundedIngestion ==
    /\ values # NotDefined => FirstRowsOf(values, file_values, "age")
    /\ labels # NotDefined => FirstRowsOf(labels, file_labels, "damage_grade")
    /\ SplitProduced =>
          \A o \in Range(train_values.index) \cup Range(test_values.index) : o < N

C13_Witness ==
    /\ pc = "done"
    /\ N = 2
    /\ Len(file_values.rows) = 4
    /\ Len(file_labels.rows) = 4
    /\ Len(values.data) = 2
    /\ Len(labels.data) = 2
    /\ values.data[2]["age"] = file_values.rows[2]["age"]

(* C14: an executed split finds the identifier gone from values and from   *)
(* labels and no vocabulary string left in a column of value_map; and from *)
(* the moment the load cell has ended no step changes values or labels,    *)
(* and once the subsets exist no step (another execution of the split,     *)
(* the flattening, fit, score, reading values.columns) changes             *)
(* train_values, test_values, test_labels or the sequence of labels held   *)
(* by train_labels.                                                        *)
LabelsOf(subset) ==
    IF "ndarray" \in DOMAIN subset THEN subset.ndarray
    ELSE [k \in DOMAIN subset.data |-> subset.data[k]["damage_grade"]]

EncodingComplete ==
    \A p \in DOMAIN values.data : \A c \in Range(value_map_keys) :
        /\ c \in DOMAIN values.data[p]
        /\ ~(values.data[p][c].t = "str" /\ values.data[p][c].s \in Range(value_map[c]))

SplitAfterPreparation ==
    SplitAttempted
        => /\ ~HasColumn(values, "building_id")
           /\ ~HasColumn(labels, "building_id")
           /\ EncodingComplete

ReadOnlyStep ==
    pc \in {"split", "ravel", "fit", "score", "features", "done"}
        => /\ values' = values
           /\ labels' = labels
           /\ SplitProduced
                 => /\ train_values' = train_values
                    /\ test_values' = test_values
                    /\ test_labels' = test_labels
                    /\ LabelsOf(train_labels') = LabelsOf(train_labels)

C14_ReadOnlyAfterSplit == [](SplitAfterPreparation) /\ [][ReadOnlyStep]_vars

C14_Witness ==
    /\ pc = "done"
    /\ Len(splits) = 2
    /\ "ndarray" \in DOMAIN train_labels
    /\ Len(train_labels.ndarray) = 3
    /\ features = values.columns
    /\ forest = "fitted"

RemapFrame ==
    pc = "remap"
        => /\ values'.columns = values.columns
           /\ values'.index = values.index
           /\ Len(values'.data) = Len(values.data)
           /\ \A p \in DOMAIN values.data :
                 /\ DOMAIN values'.data[p] = DOMAIN values.data[p]
                 /\ \A c \in DOMAIN values.data[p] :
                       c # value_map_keys[key_i] => values'.data[p][c] = values.data[p][c]
           /\ labels' = labels

C16_EncodingFrame == [][RemapFrame]_vars

C16_Witness ==
    /\ pc = "split"
    /\ Len(values.data) = 3
    /\ values.columns = <<"age">> \o value_map_keys
    /\ \A p \in DOMAIN values.data :
          /\ values.data[p]["age"] = file_values.rows[p]["age"]
          /\ values.data[p]["foundation_type"].t = "int"
          /\ file_values.rows[p]["foundation_type"].t = "str"
    /\ Len(labels.data) = 3

====
